---- MODULE Spec2Model ----
(***************************************************************************)
(* State-machine model of the VoiceHearth recording processor              *)
(* (src/src/pipeline.ts) and of its HTTP trigger (src/src/index.ts).       *)
(*                                                                         *)
(* One invocation of processRecording is a coroutine: the code between two *)
(* awaits runs atomically, so every action below is "the awaited external  *)
(* operation completes, then the synchronous code up to the next await     *)
(* runs and the next external operation is issued".  pc[i] names the       *)
(* operation invocation i is suspended on.                                 *)
(*                                                                         *)
(* External collaborators (Supabase tables and storage, fetch, ffmpeg, the *)
(* transcoding engine) answer nondeterministically with every outcome      *)
(* their API has.  A status write (update ... eq id) is applied by the     *)
(* database while the invocation awaits it, in a step of its own, so the   *)
(* writes of two invocations interleave freely; the code discards the      *)
(* result of the write (pipeline.ts:26-29).                                *)
(* The file system is deterministic: a write or read under /tmp/{session}  *)
(* throws exactly when that directory is gone, and a transcode can only    *)
(* succeed while it is there.  rmSync may throw (pipeline.ts:270-274).     *)
(***************************************************************************)
EXTENDS Integers, Sequences, FiniteSets, TLC

\* ---------------------------------------------------------------- bounds
MaxPages == 2          \* page_index ranges over 0..MaxPages-1
MaxDuration == 7       \* a probed duration is 0..MaxDuration seconds

\* Two invocations of processRecording, which may overlap in any way: they
\* interfere only pairwise, through one purchases row, one /tmp directory
\* and one storage object.
Invocations == {1, 2}
PageIndexes == 0..(MaxPages - 1)
SessionIds == {"s1", "s2"}
PurchaseIds == {"p1", "p2"}

Null == "<null>"
Undefined == "<undefined>"
\* musicTrack?: string
MusicTracks == {Undefined, "calm"}

\* The requests that are made: a call is for one of them, so the second
\* call either repeats the first request or is the other one.
Requests == <<[sessionId |-> "s1", purchaseId |-> "p1"],
          [sessionId |-> "s2", purchaseId |-> "p2"]>>

\* ---------------------------------------------------------------- state
VARIABLES
    pc,              \* [Invocations -> awaited operation]
    opts,            \* [Invocations -> ProcessOptions]
    pages,           \* rows returned by the recording_pages query
    wavFiles,        \* const wavFiles: string[]
    inputForEncode,  \* let inputForEncode
    thrown,          \* the error caught by catch (error): <<>> or <<error>>
    result,          \* how the promise settled: <<>> or <<settlement>>
    trace,           \* history: external operations begun, in order
    written,         \* history: status writes of the invocation, applied
    jobs,            \* table purchases: [PurchaseIds -> row]
    ws,              \* [SessionIds -> BOOLEAN]: /tmp/{sessionId} exists
    bucket,          \* storage bucket "recordings": key -> object or Null
    concatEntries,   \* const concatEntries: string[]
    complexFilter,   \* the filter graph of the mix, while the mix runs
    applied,         \* the status write i awaits has reached the table
    atEnd,           \* history: <<the job row and workspace when i settled>>
    req,             \* POST /process: the request received, <<>> or <<request>>
    res,             \* POST /process: the responses sent, in order
    handler          \* POST /process: where the route handler is

\* the state of the HTTP trigger
httpVars == <<req, res, handler>>

vars == <<pc, opts, pages, wavFiles, inputForEncode, thrown, result, trace,
          written, jobs, ws, bucket, concatEntries, complexFilter, applied,
          atEnd, req, res, handler>>

\* ProcessingStep, in declaration order (pipeline.ts:8-14)
ProcessingStep == <<"downloading", "stitching", "polishing", "mixing_music",
                    "encoding", "uploading">>

StepIndex(step) == CHOOSE n \in 1..Len(ProcessingStep) : ProcessingStep[n] = step

\* ---------------------------------------------------------------- paths
\* const tmpDir = path.join("/tmp", sessionId)
tmpDir(sessionId) == "/tmp/" \o sessionId

\* path.join(tmpDir, name)
InTmp(sessionId, name) == tmpDir(sessionId) \o "/" \o name

rawPath(sessionId, page_index) ==
    InTmp(sessionId, "page-" \o ToString(page_index) \o ".raw")

wavPath(sessionId, page_index) ==
    InTmp(sessionId, "page-" \o ToString(page_index) \o ".wav")

silencePath(sessionId) == InTmp(sessionId, "silence.wav")
concatListPath(sessionId) == InTmp(sessionId, "concat.txt")
concatenatedPath(sessionId) == InTmp(sessionId, "concatenated.wav")
polishedPath(sessionId) == InTmp(sessionId, "polished.wav")
musicPath(sessionId) == InTmp(sessionId, "music.mp3")
mixedPath(sessionId) == InTmp(sessionId, "mixed.wav")
mp3Path(sessionId) == InTmp(sessionId, "output.mp3")

\* const outputStoragePath = `processed/${sessionId}.mp3`
outputStoragePath(sessionId) == "processed/" \o sessionId \o ".mp3"

StorageKeys == {outputStoragePath(s) : s \in SessionIds}

\* ---------------------------------------------------------------- errors
\* A thrown value.  new Error(m) and the errors of fetch, fs and ffmpeg are
\* Error objects with a message.
Err(m) == [isError |-> TRUE, message |-> m]

NoPagesError == Err("No recording pages found for session")
SignedUrlError(page_index) ==
    Err("Failed to get signed URL for page " \o ToString(page_index))
DownloadError(page_index) ==
    Err("Failed to download page " \o ToString(page_index))
UploadError(m) == Err("Failed to upload processed MP3: " \o m)
FetchRejected == Err("fetch failed")
FfmpegError == Err("ffmpeg exited with code 1")
FsError == Err("ENOENT: no such file or directory")

\* const message = error instanceof Error ? error.message : "Unknown ..."
MessageOf(error) ==
    IF error.isError THEN error.message ELSE "Unknown processing error"

\* JavaScript truthiness of an optional string
Truthy(s) == s # Undefined /\ s # ""

\* ---------------------------------------------------------------- rows
EmptyRow == [processing_step |-> Null, processing_status |-> Null,
             error_message |-> Null, final_audio_url |-> Null]

Ev(op, arg) == [op |-> op, arg |-> arg]

\* one invocation of the transcoding engine: runFfmpeg(Ffmpeg(input)...output(out))
Ff(input, out) == [op |-> "ffmpeg", arg |-> input, out |-> out]

\* ---------------------------------------------------------------- sink
\* mutant: the step write is not awaited, so it has not been applied when
\* the stage begins
updateStep_notAwaited(i, step) == UNCHANGED <<jobs, written>>

updateStep(i, step) ==
    /\ jobs' = [jobs EXCEPT ![opts[i].purchaseId].processing_step = step]
    /\ written' = [written EXCEPT ![i] = Append(@, Ev("updateStep", step))]

\* mutant: the status is set but the message is not stored
markFailed_noMessage(i, error) ==
    /\ jobs' = [jobs EXCEPT ![opts[i].purchaseId].processing_status = "failed"]
    /\ written' = [written EXCEPT ![i] = Append(@, Ev("markFailed", Null))]

markFailed(i, error) ==
    /\ jobs' = [jobs EXCEPT ![opts[i].purchaseId].processing_status = "failed",
                            ![opts[i].purchaseId].error_message = error]
    /\ written' = [written EXCEPT ![i] = Append(@, Ev("markFailed", error))]

markCompleted(i, audioPath) ==
    /\ jobs' = [jobs EXCEPT ![opts[i].purchaseId].processing_status = "completed",
                            ![opts[i].purchaseId].final_audio_url = audioPath]
    /\ written' = [written EXCEPT ![i] = Append(@, Ev("markCompleted", audioPath))]

\* ---------------------------------------------------------------- control
\* resume at the next await, having begun the operations evs
Goto(i, label, evs) ==
    /\ pc' = [pc EXCEPT ![i] = label]
    /\ trace' = [trace EXCEPT ![i] = @ \o evs]

\* mutant: the catch block removes the workspace before it records the
\* failure
Catch_cleansUp(i, error, evs) ==
    /\ pc' = [pc EXCEPT ![i] = "markFailed"]
    /\ trace' = [trace EXCEPT ![i] =
                    @ \o evs \o <<Ev("rmSync", tmpDir(opts[i].sessionId))>>]
    /\ thrown' = [thrown EXCEPT ![i] = <<error>>]

\* catch (error): log, then await markFailed(purchaseId, message)
Catch(i, error, evs) ==
    /\ Goto(i, "markFailed", evs)
    /\ thrown' = [thrown EXCEPT ![i] = <<error>>]

\* mutant: the route handler awaits processRecording without a try/catch,
\* so a failure of it rejects the handler's own promise
HandlerResumes_noCatch(i, settled) ==
    handler' = [handler EXCEPT ![i] =
                   IF @ # "awaiting" THEN @
                   ELSE IF settled.kind = "thrown" THEN "rejected"
                   ELSE "returned"]

\* index.ts:48-61: when the promise settles, a route handler that awaits it
\* resumes in the same turn of the event loop; either way it only logs and
\* returns
HandlerResumes(i, settled) ==
    handler' = [handler EXCEPT ![i] = IF @ = "awaiting" THEN "returned" ELSE @]

\* mutant: the removal is the last statement of the try block instead of a
\* finally block, so a failed invocation leaves its workspace
Finally_onlyOnReturn(i, settled) ==
    /\ pc' = [pc EXCEPT ![i] = "done"]
    /\ HandlerResumes(i, settled)
    /\ result' = [result EXCEPT ![i] = <<settled>>]
    /\ IF settled.kind = "returned"
       THEN /\ ws' = [ws EXCEPT ![opts[i].sessionId] = FALSE]
            /\ trace' = [trace EXCEPT ![i] =
                   Append(@, Ev("rmSync", tmpDir(opts[i].sessionId)))]
       ELSE UNCHANGED <<ws, trace>>
    /\ atEnd' = [atEnd EXCEPT ![i] =
                    <<[job |-> jobs'[opts[i].purchaseId],
                       wsExists |-> ws'[opts[i].sessionId]]>>]

\* mutant: the finally block has no try/catch of its own, so an error of
\* rmSync replaces the settlement of the promise
Finally_rmEscalates(i, settled) ==
    /\ pc' = [pc EXCEPT ![i] = "done"]
    /\ HandlerResumes(i, settled)
    /\ \E rmOk \in BOOLEAN :
          /\ result' = [result EXCEPT ![i] =
                 IF rmOk THEN <<settled>>
                 ELSE <<[kind |-> "thrown", value |-> FsError]>>]
          /\ ws' = [ws EXCEPT ![opts[i].sessionId] = IF rmOk THEN FALSE ELSE @]
          /\ trace' = [trace EXCEPT ![i] =
                 @ \o <<Ev("rmSync", tmpDir(opts[i].sessionId))>>
                   \o (IF rmOk THEN <<>> ELSE <<Ev("rmSyncThrew", "ignored")>>)]
    /\ atEnd' = [atEnd EXCEPT ![i] =
                    <<[job |-> jobs'[opts[i].purchaseId],
                       wsExists |-> ws'[opts[i].sessionId]]>>]

\* finally { try { fs.rmSync(tmpDir, {recursive, force}) } catch {} }, after
\* which the promise settles with `settled`.  rmSync may throw; the catch
\* swallows it and the directory is then still there.
Finally(i, settled) ==
    /\ pc' = [pc EXCEPT ![i] = "done"]
    /\ HandlerResumes(i, settled)
    /\ result' = [result EXCEPT ![i] = <<settled>>]
    /\ \E rmOk \in BOOLEAN :
          /\ ws' = [ws EXCEPT ![opts[i].sessionId] = IF rmOk THEN FALSE ELSE @]
          /\ trace' = [trace EXCEPT ![i] =
                 @ \o <<Ev("rmSync", tmpDir(opts[i].sessionId))>>
                   \o (IF rmOk THEN <<>> ELSE <<Ev("rmSyncThrew", "ignored")>>)]
    /\ atEnd' = [atEnd EXCEPT ![i] =
                    <<[job |-> jobs'[opts[i].purchaseId],
                       wsExists |-> ws'[opts[i].sessionId]]>>]

\* await <status write>; <rest>: first the table applies the write, then, in
\* a later step, the invocation resumes with the code after the await.
AwaitWrite(i, write, resume) ==
    \/ /\ ~applied[i]
       /\ write
       /\ applied' = [applied EXCEPT ![i] = TRUE]
       /\ UNCHANGED <<pc, trace, thrown, result, ws, atEnd, handler>>
    \/ /\ applied[i]
       /\ applied' = [applied EXCEPT ![i] = FALSE]
       /\ UNCHANGED <<jobs, written>>
       /\ resume

\* ---------------------------------------------------------------- Init
Init ==
    /\ pc = [i \in Invocations |-> "idle"]
    /\ opts = [i \in Invocations |->
                  [sessionId |-> Null, purchaseId |-> Null, musicTrack |-> Null]]
    /\ pages = [i \in Invocations |-> <<>>]
    /\ wavFiles = [i \in Invocations |-> <<>>]
    /\ inputForEncode = [i \in Invocations |-> Null]
    /\ thrown = [i \in Invocations |-> <<>>]
    /\ result = [i \in Invocations |-> <<>>]
    /\ trace = [i \in Invocations |-> <<>>]
    /\ written = [i \in Invocations |-> <<>>]
    /\ jobs = [p \in PurchaseIds |-> EmptyRow]
    /\ ws = [s \in SessionIds |-> FALSE]
    /\ bucket = [k \in StorageKeys |-> Null]
    /\ concatEntries = [i \in Invocations |-> <<>>]
    /\ complexFilter = [i \in Invocations |-> <<>>]
    /\ applied = [i \in Invocations |-> FALSE]
    /\ atEnd = [i \in Invocations |-> <<>>]
    /\ req = [i \in Invocations |-> <<>>]
    /\ res = [i \in Invocations |-> <<>>]
    /\ handler = [i \in Invocations |-> "idle"]

\* ---------------------------------------------------------------- actions
\* the options call i can be made with: the first call is for the first
\* request, the second repeats it or is for the other one
CallOptions(i) ==
    {[sessionId |-> Requests[n].sessionId,
      purchaseId |-> Requests[n].purchaseId, musicTrack |-> m] :
        n \in 1..i, m \in MusicTracks}

\* processRecording(options) is called: lines 73-82 up to the first await
processRecording(i, options) ==
    /\ pc[i] = "idle"
    /\ opts' = [opts EXCEPT ![i] = options]
    /\ ws' = [ws EXCEPT ![options.sessionId] = TRUE]
    /\ Goto(i, "updateStep_downloading",
            <<Ev("mkdirSync", tmpDir(options.sessionId))>>)
    /\ UNCHANGED <<pages, wavFiles, inputForEncode, thrown, result, written,
                   jobs, bucket, concatEntries, complexFilter, applied, atEnd>>

\* a caller calls processRecording
Start(i) ==
    /\ \A j \in Invocations : j < i => pc[j] # "idle"
    /\ \E options \in CallOptions(i) : processRecording(i, options)
    /\ UNCHANGED httpVars

\* line 82: the write, then lines 84-89 begin the page query
StepDownloading(i) ==
    /\ pc[i] = "updateStep_downloading"
    /\ AwaitWrite(i, updateStep(i, "downloading"),
          /\ Goto(i, "selectPages", <<Ev("selectPages", opts[i].sessionId)>>)
          /\ UNCHANGED <<thrown, result, ws, atEnd, handler>>)
    /\ UNCHANGED <<req, res>>
    /\ UNCHANGED <<opts, pages, wavFiles, inputForEncode, bucket,
                   concatEntries, complexFilter>>

\* the rows a query ordered by page_index ascending can return
RECURSIVE Ascending(_)
Ascending(S) ==
    IF S = {} THEN <<>>
    ELSE LET m == CHOOSE x \in S : \A y \in S : x <= y
         IN <<m>> \o Ascending(S \ {m})

\* The answers of the query: the rows with an audio_url are the pages from
\* some page_index on (none, some or all of the session's pages).
PageLists ==
    {Ascending({x \in PageIndexes : x >= first}) : first \in 0..MaxPages}

\* the next iteration of for (const page of pages), or the code after the loop
CurrentPage(i) == pages[i][Len(wavFiles[i]) + 1]

\* mutant: the guard at line 91 lacks `pages.length === 0`, so an empty
\* result runs the loop zero times and goes on to step 2
PagesQueried_noLengthCheck(i) ==
    /\ pc[i] = "selectPages"
    /\ \E pagesError \in BOOLEAN, noData \in BOOLEAN, data \in PageLists :
          /\ pagesError => noData
          /\ noData => data = <<>>
          /\ IF pagesError \/ noData
             THEN /\ Catch(i, NoPagesError, <<>>)
                  /\ UNCHANGED pages
             ELSE /\ pages' = [pages EXCEPT ![i] = data]
                  /\ IF Len(data) = 0
                     THEN Goto(i, "updateStep_stitching", <<>>)
                     ELSE Goto(i, "createSignedUrl",
                               <<Ev("createSignedUrl", ToString(data[1]))>>)
                  /\ UNCHANGED thrown
    /\ UNCHANGED httpVars
    /\ UNCHANGED <<opts, wavFiles, inputForEncode, result, written, jobs, ws,
                   bucket, concatEntries, complexFilter, applied, atEnd>>

\* lines 84-93, and the head of the first loop iteration (98-100)
PagesQueried(i) ==
    /\ pc[i] = "selectPages"
    /\ \E pagesError \in BOOLEAN, noData \in BOOLEAN, data \in PageLists :
          /\ pagesError => noData
          /\ noData => data = <<>>
          /\ IF pagesError \/ noData \/ Len(data) = 0
             THEN /\ Catch(i, NoPagesError, <<>>)
                  /\ UNCHANGED pages
             ELSE /\ pages' = [pages EXCEPT ![i] = data]
                  /\ Goto(i, "createSignedUrl",
                          <<Ev("createSignedUrl", ToString(data[1]))>>)
                  /\ UNCHANGED thrown
    /\ UNCHANGED httpVars
    /\ UNCHANGED <<opts, wavFiles, inputForEncode, result, written, jobs, ws,
                   bucket, concatEntries, complexFilter, applied, atEnd>>

\* lines 98-106
SignedUrlIssued(i) ==
    /\ pc[i] = "createSignedUrl"
    /\ \/ /\ Goto(i, "fetchPage", <<Ev("fetch", ToString(CurrentPage(i)))>>)
          /\ UNCHANGED thrown
       \/ Catch(i, SignedUrlError(CurrentPage(i)), <<>>)
    /\ UNCHANGED httpVars
    /\ UNCHANGED <<opts, pages, wavFiles, inputForEncode, result, written,
                   jobs, ws, bucket, concatEntries, complexFilter, applied, atEnd>>

\* mutant: a page whose download failed is requested again
PageFetched_retries(i) ==
    /\ pc[i] = "fetchPage"
    /\ LET s == opts[i].sessionId
           n == CurrentPage(i)
           write == Ev("writeFileSync", rawPath(s, n))
       IN \/ Catch(i, FetchRejected, <<>>)
          \/ /\ Goto(i, "createSignedUrl", <<Ev("createSignedUrl", ToString(n))>>)
             /\ UNCHANGED thrown
          \/ /\ ~ws[s]
             /\ Catch(i, FsError, <<write>>)
          \/ /\ ws[s]
             /\ Goto(i, "normalize", <<write, Ff(rawPath(s, n), wavPath(s, n))>>)
             /\ UNCHANGED thrown
    /\ UNCHANGED httpVars
    /\ UNCHANGED <<opts, pages, wavFiles, inputForEncode, result, written,
                   jobs, ws, bucket, concatEntries, complexFilter, applied, atEnd>>

\* lines 106-123: the response, the raw file, the normalising transcode
PageFetched(i) ==
    /\ pc[i] = "fetchPage"
    /\ LET s == opts[i].sessionId
           n == CurrentPage(i)
           write == Ev("writeFileSync", rawPath(s, n))
       IN \/ Catch(i, FetchRejected, <<>>)
          \/ Catch(i, DownloadError(n), <<>>)
          \/ /\ ~ws[s]
             /\ Catch(i, FsError, <<write>>)
          \/ /\ ws[s]
             /\ Goto(i, "normalize", <<write, Ff(rawPath(s, n), wavPath(s, n))>>)
             /\ UNCHANGED thrown
    /\ UNCHANGED httpVars
    /\ UNCHANGED <<opts, pages, wavFiles, inputForEncode, result, written,
                   jobs, ws, bucket, concatEntries, complexFilter, applied, atEnd>>

\* mutant: the clip is put at the front of wavFiles (unshift for push)
PageNormalized_unshift(i) ==
    /\ pc[i] = "normalize"
    /\ \/ /\ Catch(i, FfmpegError, <<>>)
          /\ UNCHANGED wavFiles
       \/ /\ ws[opts[i].sessionId]
          /\ wavFiles' = [wavFiles EXCEPT ![i] =
                             <<wavPath(opts[i].sessionId, CurrentPage(i))>> \o @]
          /\ IF Len(wavFiles'[i]) < Len(pages[i])
             THEN Goto(i, "createSignedUrl",
                       <<Ev("createSignedUrl",
                            ToString(pages[i][Len(wavFiles'[i]) + 1]))>>)
             ELSE Goto(i, "updateStep_stitching", <<>>)
          /\ UNCHANGED thrown
    /\ UNCHANGED httpVars
    /\ UNCHANGED <<opts, pages, inputForEncode, result, written, jobs, ws,
                   bucket, concatEntries, complexFilter, applied, atEnd>>

\* lines 117-128: wavFiles.push, then the next page or step 2
PageNormalized(i) ==
    /\ pc[i] = "normalize"
    /\ \/ /\ Catch(i, FfmpegError, <<>>)
          /\ UNCHANGED wavFiles
       \/ /\ ws[opts[i].sessionId]
          /\ wavFiles' = [wavFiles EXCEPT ![i] =
                             Append(@, wavPath(opts[i].sessionId, CurrentPage(i)))]
          /\ IF Len(wavFiles'[i]) < Len(pages[i])
             THEN Goto(i, "createSignedUrl",
                       <<Ev("createSignedUrl",
                            ToString(pages[i][Len(wavFiles'[i]) + 1]))>>)
             ELSE Goto(i, "updateStep_stitching", <<>>)
          /\ UNCHANGED thrown
    /\ UNCHANGED httpVars
    /\ UNCHANGED <<opts, pages, inputForEncode, result, written, jobs, ws,
                   bucket, concatEntries, complexFilter, applied, atEnd>>

\* line 128: the write, then lines 130-140 begin the silence clip
StepStitching(i) ==
    /\ pc[i] = "updateStep_stitching"
    /\ AwaitWrite(i, updateStep(i, "stitching"),
          /\ Goto(i, "silence",
                  <<Ff("anullsrc=r=44100:cl=mono", silencePath(opts[i].sessionId))>>)
          /\ UNCHANGED <<thrown, result, ws, atEnd, handler>>)
    /\ UNCHANGED <<req, res>>
    /\ UNCHANGED <<opts, pages, wavFiles, inputForEncode, bucket,
                   concatEntries, complexFilter>>

\* mutant: a silence entry follows every page clip, the last one too
RECURSIVE BuildConcat_trailingSilence(_, _, _)
BuildConcat_trailingSilence(files, silence, n) ==
    IF n > Len(files) THEN <<>>
    ELSE <<"file '" \o files[n] \o "'", "file '" \o silence \o "'">>
         \o BuildConcat_trailingSilence(files, silence, n + 1)

\* lines 144-150
RECURSIVE BuildConcat(_, _, _)
BuildConcat(files, silence, n) ==
    IF n > Len(files) THEN <<>>
    ELSE <<"file '" \o files[n] \o "'">>
         \o (IF n < Len(files) THEN <<"file '" \o silence \o "'">> ELSE <<>>)
         \o BuildConcat(files, silence, n + 1)

\* lines 131-162: the concat list and the concatenating transcode
SilenceGenerated(i) ==
    /\ pc[i] = "silence"
    /\ LET s == opts[i].sessionId
           write == Ev("writeFileSync", concatListPath(s))
           entries == BuildConcat(wavFiles[i], silencePath(s), 1)
       IN \/ /\ Catch(i, FfmpegError, <<>>)
             /\ UNCHANGED concatEntries
          \/ /\ ws[s]
             /\ concatEntries' = [concatEntries EXCEPT ![i] = entries]
             /\ Goto(i, "concat",
                     <<write, Ff(concatListPath(s), concatenatedPath(s))>>)
             /\ UNCHANGED thrown
    /\ UNCHANGED httpVars
    /\ UNCHANGED <<opts, pages, wavFiles, inputForEncode, result, written,
                   jobs, ws, bucket, complexFilter, applied, atEnd>>

\* lines 154-165
Concatenated(i) ==
    /\ pc[i] = "concat"
    /\ \/ Catch(i, FfmpegError, <<>>)
       \/ /\ ws[opts[i].sessionId]
          /\ Goto(i, "updateStep_polishing", <<>>)
          /\ UNCHANGED thrown
    /\ UNCHANGED httpVars
    /\ UNCHANGED <<opts, pages, wavFiles, inputForEncode, result, written,
                   jobs, ws, bucket, concatEntries, complexFilter, applied, atEnd>>

\* line 165: the write, then lines 167-178 begin the polish transcode
StepPolishing(i) ==
    /\ pc[i] = "updateStep_polishing"
    /\ AwaitWrite(i, updateStep(i, "polishing"),
          /\ Goto(i, "polish", <<Ff(concatenatedPath(opts[i].sessionId),
                                    polishedPath(opts[i].sessionId))>>)
          /\ UNCHANGED <<thrown, result, ws, atEnd, handler>>)
    /\ UNCHANGED <<req, res>>
    /\ UNCHANGED <<opts, pages, wavFiles, inputForEncode, bucket,
                   concatEntries, complexFilter>>

\* mutant: the music step is entered whether or not a track was selected
StepAfterPolish_always(musicTrack) == "mixing_music"

\* if (musicTrack) at line 183: the step written after polishing
StepAfterPolish(musicTrack) ==
    IF Truthy(musicTrack) THEN "mixing_music" ELSE "encoding"

\* mutant: runFfmpeg has no handler for the engine's "error" event, so the
\* promise of a failed transcode never settles
Polished_noReject(i) ==
    /\ pc[i] = "polish"
    /\ \/ /\ ws[opts[i].sessionId]
          /\ inputForEncode' = [inputForEncode EXCEPT ![i] =
                                   polishedPath(opts[i].sessionId)]
          /\ Goto(i, "updateStep_" \o StepAfterPolish(opts[i].musicTrack), <<>>)
          /\ UNCHANGED thrown
    /\ UNCHANGED httpVars
    /\ UNCHANGED <<opts, pages, wavFiles, result, written, jobs, ws, bucket,
                   concatEntries, complexFilter, applied, atEnd>>

\* lines 168-184 / 221
Polished(i) ==
    /\ pc[i] = "polish"
    /\ \/ /\ Catch(i, FfmpegError, <<>>)
          /\ UNCHANGED inputForEncode
       \/ /\ ws[opts[i].sessionId]
          /\ inputForEncode' = [inputForEncode EXCEPT ![i] =
                                   polishedPath(opts[i].sessionId)]
          /\ Goto(i, "updateStep_" \o StepAfterPolish(opts[i].musicTrack), <<>>)
          /\ UNCHANGED thrown
    /\ UNCHANGED httpVars
    /\ UNCHANGED <<opts, pages, wavFiles, result, written, jobs, ws, bucket,
                   concatEntries, complexFilter, applied, atEnd>>

\* `${appUrl}/music/${musicTrack}.mp3`
musicUrl(musicTrack) == "APP_URL/music/" \o musicTrack \o ".mp3"

\* line 184: the write, then lines 186-189 begin the music fetch
StepMixingMusic(i) ==
    /\ pc[i] = "updateStep_mixing_music"
    /\ AwaitWrite(i, updateStep(i, "mixing_music"),
          /\ Goto(i, "fetchMusic", <<Ev("fetch", musicUrl(opts[i].musicTrack))>>)
          /\ UNCHANGED <<thrown, result, ws, atEnd, handler>>)
    /\ UNCHANGED <<req, res>>
    /\ UNCHANGED <<opts, pages, wavFiles, inputForEncode, bucket,
                   concatEntries, complexFilter>>

\* what await fetch(musicUrl) can do: resolve with ok, resolve with an HTTP
\* error status, or reject (network failure, invalid URL)
FetchOutcomes == {"ok", "not_ok", "rejected"}

\* lines 189-196 and 216-221
MusicFetched(i) ==
    /\ pc[i] = "fetchMusic"
    /\ LET s == opts[i].sessionId
           write == Ev("writeFileSync", musicPath(s))
       IN \E outcome \in FetchOutcomes :
          CASE outcome = "rejected" -> Catch(i, FetchRejected, <<>>)
            [] outcome = "not_ok" ->
                 /\ Goto(i, "updateStep_encoding", <<>>)
                 /\ UNCHANGED thrown
            [] outcome = "ok" ->
                 \/ /\ ~ws[s]
                    /\ Catch(i, FsError, <<write>>)
                 \/ /\ ws[s]
                    /\ Goto(i, "ffprobe", <<write, Ev("ffprobe", polishedPath(s))>>)
                    /\ UNCHANGED thrown
    /\ UNCHANGED httpVars
    /\ UNCHANGED <<opts, pages, wavFiles, inputForEncode, result, written,
                   jobs, ws, bucket, concatEntries, complexFilter, applied, atEnd>>

\* metadata.format.duration as ffprobe reports it (whole seconds): <<d>>,
\* or <<>> when the field is undefined
ProbedDurations == {<<>>} \cup {<<d>> : d \in 0..MaxDuration}

\* resolve(metadata.format.duration || 0)
getAudioDuration(duration) == IF duration = <<>> THEN 0 ELSE duration[1]

Max(a, b) == IF a >= b THEN a ELSE b

\* mutant: the start of the fade-out is not clamped
FadeOutStart_unclamped(voiceDuration) == voiceDuration - 5

\* afade=t=out:st=${Math.max(0, voiceDuration - 5)}
FadeOutStart(voiceDuration) == Max(0, voiceDuration - 5)

\* lines 196-214
DurationProbed(i) ==
    /\ pc[i] = "ffprobe"
    /\ LET s == opts[i].sessionId IN
       \/ /\ Catch(i, FfmpegError, <<>>)
          /\ UNCHANGED complexFilter
       \/ /\ ws[s]
          /\ \E duration \in ProbedDurations :
                LET voiceDuration == getAudioDuration(duration) IN
                complexFilter' = [complexFilter EXCEPT ![i] =
                    <<[atrim |-> voiceDuration,
                       fadeOutStart |-> FadeOutStart(voiceDuration)]>>]
          /\ Goto(i, "mix", <<Ff(polishedPath(s), mixedPath(s))>>)
          /\ UNCHANGED thrown
    /\ UNCHANGED httpVars
    /\ UNCHANGED <<opts, pages, wavFiles, inputForEncode, result, written,
                   jobs, ws, bucket, concatEntries, applied, atEnd>>

\* lines 199-221; the filter graph is gone once the mix has ended
Mixed(i) ==
    /\ pc[i] = "mix"
    /\ complexFilter' = [complexFilter EXCEPT ![i] = <<>>]
    /\ \/ /\ Catch(i, FfmpegError, <<>>)
          /\ UNCHANGED inputForEncode
       \/ /\ ws[opts[i].sessionId]
          /\ inputForEncode' = [inputForEncode EXCEPT ![i] =
                                   mixedPath(opts[i].sessionId)]
          /\ Goto(i, "updateStep_encoding", <<>>)
          /\ UNCHANGED thrown
    /\ UNCHANGED httpVars
    /\ UNCHANGED <<opts, pages, wavFiles, result, written, jobs, ws, bucket,
                   concatEntries, applied, atEnd>>

\* line 221: the write, then lines 223-240 begin the encode
StepEncoding(i) ==
    /\ pc[i] = "updateStep_encoding"
    /\ AwaitWrite(i, updateStep(i, "encoding"),
          /\ Goto(i, "encode", <<Ff(inputForEncode[i], mp3Path(opts[i].sessionId))>>)
          /\ UNCHANGED <<thrown, result, ws, atEnd, handler>>)
    /\ UNCHANGED <<req, res>>
    /\ UNCHANGED <<opts, pages, wavFiles, inputForEncode, bucket,
                   concatEntries, complexFilter>>

\* lines 232-243
Encoded(i) ==
    /\ pc[i] = "encode"
    /\ \/ Catch(i, FfmpegError, <<>>)
       \/ /\ ws[opts[i].sessionId]
          /\ Goto(i, "updateStep_uploading", <<>>)
          /\ UNCHANGED thrown
    /\ UNCHANGED httpVars
    /\ UNCHANGED <<opts, pages, wavFiles, inputForEncode, result, written,
                   jobs, ws, bucket, concatEntries, complexFilter, applied, atEnd>>

\* mutant: line 243 names the wrong step
StepUploading_wrongStep(i) ==
    /\ pc[i] = "updateStep_uploading"
    /\ LET s == opts[i].sessionId
           read == Ev("readFileSync", mp3Path(s))
       IN AwaitWrite(i, updateStep(i, "polishing"),
             /\ \/ /\ ~ws[s]
                   /\ Catch(i, FsError, <<read>>)
                \/ /\ ws[s]
                   /\ Goto(i, "upload",
                           <<read, Ev("upload", outputStoragePath(s))>>)
                   /\ UNCHANGED thrown
             /\ UNCHANGED <<result, ws, atEnd, handler>>)
    /\ UNCHANGED <<req, res>>
    /\ UNCHANGED <<opts, pages, wavFiles, inputForEncode, bucket,
                   concatEntries, complexFilter>>

\* line 243: the write, then lines 245-253 read the file and begin the upload
StepUploading(i) ==
    /\ pc[i] = "updateStep_uploading"
    /\ LET s == opts[i].sessionId
           read == Ev("readFileSync", mp3Path(s))
       IN AwaitWrite(i, updateStep(i, "uploading"),
             /\ \/ /\ ~ws[s]
                   /\ Catch(i, FsError, <<read>>)
                \/ /\ ws[s]
                   /\ Goto(i, "upload",
                           <<read, Ev("upload", outputStoragePath(s))>>)
                   /\ UNCHANGED thrown
             /\ UNCHANGED <<result, ws, atEnd, handler>>)
    /\ UNCHANGED <<req, res>>
    /\ UNCHANGED <<opts, pages, wavFiles, inputForEncode, bucket,
                   concatEntries, complexFilter>>

\* mutant: the upload does not replace an object that is already there
Uploaded_keepsFirst(i) ==
    /\ pc[i] = "upload"
    /\ \/ /\ Catch(i, UploadError("storage unavailable"), <<>>)
          /\ UNCHANGED bucket
       \/ /\ bucket' = [bucket EXCEPT ![outputStoragePath(opts[i].sessionId)] =
                           IF @ = Null THEN inputForEncode[i] ELSE @]
          /\ Goto(i, "markCompleted", <<>>)
          /\ UNCHANGED thrown
    /\ UNCHANGED httpVars
    /\ UNCHANGED <<opts, pages, wavFiles, inputForEncode, result, written,
                   jobs, ws, concatEntries, complexFilter, applied, atEnd>>

\* lines 248-260: upsert of the object, or uploadError
Uploaded(i) ==
    /\ pc[i] = "upload"
    /\ \/ /\ Catch(i, UploadError("storage unavailable"), <<>>)
          /\ UNCHANGED bucket
       \/ /\ bucket' = [bucket EXCEPT ![outputStoragePath(opts[i].sessionId)] =
                           inputForEncode[i]]
          /\ Goto(i, "markCompleted", <<>>)
          /\ UNCHANGED thrown
    /\ UNCHANGED httpVars
    /\ UNCHANGED <<opts, pages, wavFiles, inputForEncode, result, written,
                   jobs, ws, concatEntries, complexFilter, applied, atEnd>>

\* mutant: a statement after markCompleted, still inside the try block,
\* throws, so the catch block runs for a job already recorded as completed
Completed_thenThrows(i) ==
    /\ pc[i] = "markCompleted"
    /\ AwaitWrite(i, markCompleted(i, outputStoragePath(opts[i].sessionId)),
          /\ Catch(i, FsError, <<>>)
          /\ UNCHANGED <<result, ws, atEnd, handler>>)
    /\ UNCHANGED <<req, res>>
    /\ UNCHANGED <<opts, pages, wavFiles, inputForEncode, bucket,
                   concatEntries, complexFilter>>

\* line 260: the write, then return outputStoragePath (262) and finally
\* (268-275)
Completed(i) ==
    /\ pc[i] = "markCompleted"
    /\ AwaitWrite(i, markCompleted(i, outputStoragePath(opts[i].sessionId)),
          /\ Finally(i, [kind |-> "returned",
                         value |-> outputStoragePath(opts[i].sessionId)])
          /\ UNCHANGED thrown)
    /\ UNCHANGED <<req, res>>
    /\ UNCHANGED <<opts, pages, wavFiles, inputForEncode, bucket,
                   concatEntries, complexFilter>>

\* line 266: the write, then throw error (267) and finally (268-275)
Failed(i) ==
    /\ pc[i] = "markFailed"
    /\ AwaitWrite(i, markFailed(i, MessageOf(thrown[i][1])),
          /\ Finally(i, [kind |-> "thrown", value |-> thrown[i][1]])
          /\ UNCHANGED thrown)
    /\ UNCHANGED <<req, res>>
    /\ UNCHANGED <<opts, pages, wavFiles, inputForEncode, bucket,
                   concatEntries, complexFilter>>

\* the promise of the invocation has settled
Done(i) == pc[i] = "done"

\* a step of an invocation that has been called
Continue(i) ==
    \/ StepDownloading(i)
    \/ PagesQueried(i)
    \/ SignedUrlIssued(i)
    \/ PageFetched(i)
    \/ PageNormalized(i)
    \/ StepStitching(i)
    \/ SilenceGenerated(i)
    \/ Concatenated(i)
    \/ StepPolishing(i)
    \/ Polished(i)
    \/ StepMixingMusic(i)
    \/ MusicFetched(i)
    \/ DurationProbed(i)
    \/ Mixed(i)
    \/ StepEncoding(i)
    \/ Encoded(i)
    \/ StepUploading(i)
    \/ Uploaded(i)
    \/ Completed(i)
    \/ Failed(i)

\* processRecording called directly, any number of times at once
Next == \E i \in Invocations : Start(i) \/ Continue(i)

Spec == Init /\ [][Next]_vars

\* a caller calls processRecording for the first request with a music track:
\* the calls that go through every stage and share job and workspace
LiveStart(i) ==
    /\ \A j \in Invocations : j < i => pc[j] # "idle"
    /\ \E options \in CallOptions(1) :
          /\ Truthy(options.musicTrack)
          /\ processRecording(i, options)
    /\ UNCHANGED httpVars

LiveNext == \E i \in Invocations : LiveStart(i) \/ Continue(i)

\* Every external call returns, with success or failure: an invocation
\* that has been called and has not settled takes its next step.
LiveSpec ==
    Init /\ [][LiveNext]_vars /\ \A i \in Invocations : WF_vars(Continue(i))

\* ---------------------------------------------------------------- HTTP
\* the state of the pipeline
pipelineVars == <<pc, opts, pages, wavFiles, inputForEncode, thrown, result,
                  trace, written, jobs, ws, bucket, concatEntries,
                  complexFilter, applied, atEnd>>

\* req.headers.authorization
Authorizations == {Undefined, "Bearer wrong", "Bearer API_KEY"}

\* authenticate (index.ts:15-26): next() is called
authenticate(authHeader) ==
    ~(~Truthy(authHeader) \/ authHeader # "Bearer API_KEY")

\* req.body.storyTitle
StoryTitles == {Undefined, "", "A story"}

\* req.body: the options of a call, each required field present or not
RequestBodies(i) ==
    {[sessionId |-> IF hasSession THEN o.sessionId ELSE Undefined,
      storyTitle |-> t,
      purchaseId |-> IF hasPurchase THEN o.purchaseId ELSE Undefined,
      musicTrack |-> o.musicTrack] :
        o \in CallOptions(i), t \in StoryTitles,
        hasSession \in BOOLEAN, hasPurchase \in BOOLEAN}

\* if (!sessionId || !storyTitle || !purchaseId)
Missing(body) ==
    ~Truthy(body.sessionId) \/ ~Truthy(body.storyTitle) \/ ~Truthy(body.purchaseId)

\* res.status(status).json({success, ...})
Respond(i, status, success) ==
    res' = [res EXCEPT ![i] = Append(@, [status |-> status, success |-> success])]

\* app.post("/process", authenticate, async (req, res) => ...), up to the
\* first await of processRecording (index.ts:34-49)
PostProcess(i) ==
    /\ handler[i] = "idle"
    /\ \A j \in Invocations : j < i => handler[j] # "idle"
    /\ \E authorization \in Authorizations, body \in RequestBodies(i) :
          /\ req' = [req EXCEPT ![i] =
                        <<[authorization |-> authorization, body |-> body]>>]
          /\ IF ~authenticate(authorization)
             THEN /\ Respond(i, 401, FALSE)
                  /\ handler' = [handler EXCEPT ![i] = "returned"]
                  /\ UNCHANGED pipelineVars
             ELSE IF Missing(body)
             THEN /\ Respond(i, 400, FALSE)
                  /\ handler' = [handler EXCEPT ![i] = "returned"]
                  /\ UNCHANGED pipelineVars
             ELSE /\ Respond(i, 200, TRUE)
                  /\ handler' = [handler EXCEPT ![i] = "awaiting"]
                  /\ processRecording(i, [sessionId |-> body.sessionId,
                                          purchaseId |-> body.purchaseId,
                                          musicTrack |-> body.musicTrack])

\* processRecording called by the route handler only
HttpNext == \E i \in Invocations : PostProcess(i) \/ Continue(i)

HttpSpec == Init /\ [][HttpNext]_vars

\* ======================================================================
\* Properties
\* ======================================================================
Returned(i) == Done(i) /\ result[i][1].kind = "returned"
Threw(i) == Done(i) /\ result[i][1].kind = "thrown"

\* the invocation has entered its catch block
Caught(i) == thrown[i] # <<>>

Job(i) == jobs[opts[i].purchaseId]

IsStepWrite(e) == e.op = "updateStep"
IsTerminalWrite(e) == e.op \in {"markFailed", "markCompleted"}

\* the steps invocation i has written, in order
RECURSIVE ArgsOf(_)
ArgsOf(seq) == IF seq = <<>> THEN <<>> ELSE <<Head(seq).arg>> \o ArgsOf(Tail(seq))

Steps(i) == ArgsOf(SelectSeq(written[i], IsStepWrite))
TerminalWrites(i) == SelectSeq(written[i], IsTerminalWrite)

Occurrences(seq, op) == Cardinality({n \in 1..Len(seq) : seq[n].op = op})

Range(seq) == {seq[n] : n \in 1..Len(seq)}

\* the operations of the cleanup are not operations of a stage
IsStageOp(e) == e.op \notin {"rmSync", "rmSyncThrew"}

\* the last operation the invocation began in a stage
LastStageOp(i) ==
    LET ops == SelectSeq(trace[i], IsStageOp) IN ops[Len(ops)]

\* ---------------------------------------------------------------- C1
\* C1: an invocation in which a fatal failure occurred has, when it ends,
\* had markFailed with the message of that error applied as its last status
\* write, rejects with that same error, and leaves the job with a terminal
\* status and an error message.
C1_FailureRecordedAndRethrown ==
    \A i \in Invocations :
       /\ Done(i) /\ Caught(i) =>
             /\ result[i] = <<[kind |-> "thrown", value |-> thrown[i][1]]>>
             /\ written[i][Len(written[i])] =
                   Ev("markFailed", MessageOf(thrown[i][1]))
             /\ Job(i).processing_status \in {"failed", "completed"}
             /\ atEnd[i][1].job.processing_status \in {"failed", "completed"}
             /\ atEnd[i][1].job.error_message # Null
       /\ Done(i) /\ ~Caught(i) => result[i][1].kind = "returned"

\* both invocations have ended in a failure, the first on the page lookup
\* and the second on the upload
C1_Witness ==
    /\ \A i \in Invocations : Threw(i)
    /\ thrown[1] = <<NoPagesError>>
    /\ thrown[2] = <<UploadError("storage unavailable")>>

\* ---------------------------------------------------------------- C2
StepWrite(i) ==
    /\ Len(written'[i]) = Len(written[i]) + 1
    /\ written'[i][Len(written'[i])].op = "updateStep"

\* C2 as claimed: whichever invocation writes a step to a job, the job has no
\* terminal status at that moment and the step written is not earlier in
\* the ordering than the step the job has.
C2_ForwardAcrossInvocations ==
    [][\A i \in Invocations :
          StepWrite(i) =>
             /\ Job(i).processing_status = Null
             /\ \/ Job(i).processing_step = Null
                \/ StepIndex(Job(i).processing_step)
                      <= StepIndex(written'[i][Len(written'[i])].arg)]_vars

\* C2 as amended: within one invocation the steps written are strictly
\* increasing in the ordering, and the invocation writes no step after its
\* own terminal status write.
C2_ForwardWithinInvocation ==
    \A i \in Invocations :
       LET steps == Steps(i) IN
       /\ \A n \in 1..(Len(steps) - 1) :
             StepIndex(steps[n]) < StepIndex(steps[n + 1])
       /\ \A m \in 1..Len(written[i]) :
             IsTerminalWrite(written[i][m]) =>
                \A n \in (m + 1)..Len(written[i]) : ~IsStepWrite(written[i][n])

\* an invocation has written all six steps and then its terminal status
C2_Witness ==
    \E i \in Invocations :
       /\ Done(i)
       /\ Steps(i) = ProcessingStep
       /\ Len(TerminalWrites(i)) = 1

\* ---------------------------------------------------------------- C3
\* C3: no job row has both an error message and a final artifact reference.
C3_ErrorXorArtifact ==
    \A p \in PurchaseIds :
       ~(jobs[p].error_message # Null /\ jobs[p].final_audio_url # Null)

\* ---------------------------------------------------------------- C4
\* C4: when an invocation returns, its job row is completed, refers to
\* processed/{session}.mp3, which is the value returned, and has no error
\* message.
C4_SuccessRow ==
    \A i \in Invocations :
       Returned(i) =>
          /\ atEnd[i][1].job.processing_status = "completed"
          /\ atEnd[i][1].job.final_audio_url =
                "processed/" \o opts[i].sessionId \o ".mp3"
          /\ atEnd[i][1].job.final_audio_url # Null
          /\ result[i][1].value = atEnd[i][1].job.final_audio_url
          /\ atEnd[i][1].job.error_message = Null

\* ---------------------------------------------------------------- C5
\* the stage an awaited external operation belongs to
StageOfOp ==
    [selectPages |-> "downloading", createSignedUrl |-> "downloading",
     fetchPage |-> "downloading", normalize |-> "downloading",
     silence |-> "stitching", concat |-> "stitching",
     polish |-> "polishing",
     fetchMusic |-> "mixing_music", ffprobe |-> "mixing_music",
     mix |-> "mixing_music",
     encode |-> "encoding",
     upload |-> "uploading"]

\* C5: while an external operation of a stage is in flight, the last status
\* write the invocation has had applied is the step of that stage.
C5_StepWrittenBeforeStage ==
    \A i \in Invocations :
       pc[i] \in DOMAIN StageOfOp =>
          /\ written[i] # <<>>
          /\ written[i][Len(written[i])] = Ev("updateStep", StageOfOp[pc[i]])

\* the upload is in flight and the six steps have been written
C5_Witness ==
    \E i \in Invocations :
       /\ pc[i] = "upload"
       /\ Steps(i) = ProcessingStep

\* ---------------------------------------------------------------- C6
\* C6: an invocation removes its workspace exactly once, when it ends, on
\* either path; not while an operation is in flight, and only after its
\* terminal status write.
C6_CleanupOnceAtEnd ==
    \A i \in Invocations :
       LET removals == Occurrences(trace[i], "rmSync") IN
       /\ Done(i) => removals = 1
       /\ ~Done(i) => removals = 0
       /\ removals > 0 =>
             /\ Len(TerminalWrites(i)) = 1
             /\ IsTerminalWrite(written[i][Len(written[i])])
             /\ \A n \in 1..Len(trace[i]) :
                   trace[i][n].op = "rmSync" =>
                      \A m \in (n + 1)..Len(trace[i]) : ~IsStageOp(trace[i][m])

\* one invocation has returned and the other has thrown
C6_Witness ==
    /\ Returned(1)
    /\ Threw(2)
    /\ Occurrences(trace[1], "rmSync") = 1
    /\ Occurrences(trace[2], "rmSync") = 1

\* ---------------------------------------------------------------- C7
\* C7 as claimed: when an invocation has ended in a failure, its job row is
\* failed with a non-empty message and /tmp/{session} does not exist.
C7_FailedAndWorkspaceGone ==
    \A i \in Invocations :
       Threw(i) =>
          /\ atEnd[i][1].job.processing_status = "failed"
          /\ atEnd[i][1].job.error_message \notin {Null, ""}
          /\ ~atEnd[i][1].wsExists

\* another invocation for the same purchase has had markCompleted applied
CompletedByOther(i) ==
    \E j \in Invocations \ {i} :
       /\ opts[j].purchaseId = opts[i].purchaseId
       /\ Occurrences(written[j], "markCompleted") > 0

\* C7 as amended: when an invocation has ended in a failure, its last status
\* write set failed with a non-empty message; the job row has a non-empty
\* message, and is failed unless another invocation for the same purchase
\* completed it; the removal of /tmp/{session} has been attempted once, and
\* the directory does not exist unless that removal itself threw.
C7_FailedAndWorkspaceRemovalAttempted ==
    \A i \in Invocations :
       Threw(i) =>
          /\ written[i][Len(written[i])].op = "markFailed"
          /\ written[i][Len(written[i])].arg \notin {Null, ""}
          /\ atEnd[i][1].job.error_message \notin {Null, ""}
          /\ atEnd[i][1].job.processing_status = "failed" \/ CompletedByOther(i)
          /\ Occurrences(trace[i], "rmSync") = 1
          /\ Occurrences(trace[i], "rmSyncThrew") = 0 => ~atEnd[i][1].wsExists

\* an invocation failed in the encode stage and its workspace is gone
C7_Witness ==
    \E i \in Invocations :
       /\ Threw(i)
       /\ Steps(i)[Len(Steps(i))] = "encoding"
       /\ thrown[i] = <<FfmpegError>>
       /\ ~atEnd[i][1].wsExists

\* ---------------------------------------------------------------- C8
\* the music fetch of the invocation has ended without a usable response
MusicFetchFailed(i) ==
    /\ pc[i] # "fetchMusic"
    /\ Ev("fetch", musicUrl(opts[i].musicTrack)) \in Range(trace[i])
    /\ Ev("writeFileSync", musicPath(opts[i].sessionId)) \notin Range(trace[i])

\* C8: after a failed music fetch the invocation does not enter its catch
\* block because of it, encodes the polished track, and, unless a later
\* stage fails, returns.
C8_MusicFailureNotFatal ==
    \A i \in Invocations :
       MusicFetchFailed(i) =>
          /\ Caught(i) =>
                LastStageOp(i) # Ev("fetch", musicUrl(opts[i].musicTrack))
          /\ pc[i] = "encode" =>
                LastStageOp(i).arg = polishedPath(opts[i].sessionId)
          /\ Done(i) /\ ~Caught(i) => Returned(i)

\* ---------------------------------------------------------------- C9
\* C9 as claimed: an invocation that has ended has written mixing_music
\* exactly if a musicTrack was supplied; without one, polishing is followed
\* by encoding.
C9_MixingIffMusic ==
    \A i \in Invocations :
       LET steps == Steps(i) IN
       Done(i) =>
          /\ "mixing_music" \in Range(steps) <=> Truthy(opts[i].musicTrack)
          /\ ~Truthy(opts[i].musicTrack) =>
                \A n \in 1..(Len(steps) - 1) :
                   steps[n] = "polishing" => steps[n + 1] = "encoding"

\* C9 as amended: mixing_music is written only if a musicTrack was supplied;
\* the step written after polishing is mixing_music if one was supplied and
\* encoding if not.
C9_MixingOnlyIfMusic ==
    \A i \in Invocations :
       LET steps == Steps(i) IN
       /\ \A n \in 1..Len(steps) :
             steps[n] = "mixing_music" => Truthy(opts[i].musicTrack)
       /\ \A n \in 1..(Len(steps) - 1) :
             steps[n] = "polishing" =>
                steps[n + 1] =
                   (IF Truthy(opts[i].musicTrack) THEN "mixing_music"
                                                  ELSE "encoding")

\* one invocation with a track has written mixing_music, the other, without
\* one, went from polishing to encoding
C9_Witness ==
    /\ Truthy(opts[1].musicTrack) /\ "mixing_music" \in Range(Steps(1))
    /\ pc[2] # "idle" /\ ~Truthy(opts[2].musicTrack)
    /\ "encoding" \in Range(Steps(2))

\* ---------------------------------------------------------------- C10
\* the page query of the invocation has been answered
PagesAnswered(i) ==
    pc[i] \notin {"idle", "updateStep_downloading", "selectPages"}

\* C10: when the page query gave no row, the invocation fails with the
\* no-pages error, has begun no transcode, and downloading is the only step
\* it has written.
C10_NoPagesFailsEarly ==
    \A i \in Invocations :
       PagesAnswered(i) /\ pages[i] = <<>> =>
          /\ thrown[i] = <<NoPagesError>>
          /\ Occurrences(trace[i], "ffmpeg") = 0
          /\ Occurrences(trace[i], "ffprobe") = 0
          /\ Steps(i) = <<"downloading">>
          /\ Done(i) => result[i][1] = [kind |-> "thrown", value |-> NoPagesError]

\* an invocation whose page query gave no row has ended
C10_Witness ==
    \E i \in Invocations :
       /\ Done(i)
       /\ pages[i] = <<>>
       /\ thrown[i] = <<NoPagesError>>

\* ---------------------------------------------------------------- C11
\* the Stitch stage of the invocation has built its manifest
ManifestBuilt(i) == concatEntries[i] # <<>>

\* the line of the manifest that names a file
FileEntry(file) == "file '" \o file \o "'"

\* the manifest lines that name a normalized page clip of the session
PageEntries(sessionId) ==
    {FileEntry(wavPath(sessionId, x)) : x \in PageIndexes}

\* C11: a manifest built from n >= 1 pages has 2n - 1 entries; the odd ones
\* are page clips and the even ones are the silence clip, so it starts and
\* ends with a page clip.
C11_ManifestAlternates ==
    \A i \in Invocations :
       ManifestBuilt(i) =>
          LET n == Len(pages[i])
              entries == concatEntries[i]
              clips == PageEntries(opts[i].sessionId)
              silence == FileEntry(silencePath(opts[i].sessionId))
          IN /\ n >= 1
             /\ Len(entries) = 2 * n - 1
             /\ Len(entries) % 2 = 1
             /\ \A k \in 1..Len(entries) :
                   IF k % 2 = 1 THEN entries[k] \in clips
                                ELSE entries[k] = silence

\* one invocation has built the manifest of a single page, the other the
\* manifest of two pages
C11_Witness ==
    /\ Len(pages[1]) = 1 /\ Len(concatEntries[1]) = 1
    /\ Len(pages[2]) = 2 /\ Len(concatEntries[2]) = 3

\* ---------------------------------------------------------------- C12
\* the page query answers in ascending order of page_index, without repeats
IsAscending(seq) ==
    \A k \in 1..(Len(seq) - 1) : seq[k] < seq[k + 1]

\* C12: the clips collected so far are those of the first pages of the
\* query's answer, in its order, and the k-th page entry of the manifest is
\* the clip of the k-th page of the answer.
C12_PageOrderPreserved ==
    \A i \in Invocations :
       LET s == opts[i].sessionId IN
       /\ IsAscending(pages[i])
       /\ Len(wavFiles[i]) <= Len(pages[i])
       /\ \A k \in 1..Len(wavFiles[i]) :
             wavFiles[i][k] = wavPath(s, pages[i][k])
       /\ ManifestBuilt(i) =>
             /\ Len(wavFiles[i]) = Len(pages[i])
             /\ \A k \in 1..Len(pages[i]) :
                   concatEntries[i][2 * k - 1] =
                      FileEntry(wavPath(s, pages[i][k]))

\* an invocation has built the manifest of pages 0 and 1
C12_Witness ==
    \E i \in Invocations :
       /\ pages[i] = <<0, 1>>
       /\ Len(concatEntries[i]) = 3
       /\ concatEntries[i][1] = FileEntry(wavPath(opts[i].sessionId, 0))
       /\ concatEntries[i][3] = FileEntry(wavPath(opts[i].sessionId, 1))

\* ---------------------------------------------------------------- C13
\* the invocation still has files to write to or read from its workspace:
\* it has begun and has not yet read output.mp3 (line 246) or failed
NeedsWorkspace(i) ==
    pc[i] \notin {"idle", "upload", "markCompleted", "markFailed", "done"}

\* C13: the workspace of an invocation that still needs it exists: no other
\* invocation has deleted it with the files in it.
C13_WorkspaceKeptWhileNeeded ==
    \A i \in Invocations :
       NeedsWorkspace(i) => ws[opts[i].sessionId]

\* ---------------------------------------------------------------- C14
\* the removal of the workspace of the invocation threw
CleanupFailed(i) ==
    trace[i] # <<>> /\ trace[i][Len(trace[i])].op = "rmSyncThrew"

\* how the invocation settles and what it writes last, as the try and catch
\* blocks decided it before the cleanup ran
OutcomeBeforeCleanup(i) ==
    IF Caught(i)
    THEN [settled |-> [kind |-> "thrown", value |-> thrown[i][1]],
          terminal |-> Ev("markFailed", MessageOf(thrown[i][1]))]
    ELSE [settled |-> [kind |-> "returned",
                       value |-> outputStoragePath(opts[i].sessionId)],
          terminal |-> Ev("markCompleted", outputStoragePath(opts[i].sessionId))]

\* C14: an invocation whose workspace removal threw settles as the try and
\* catch blocks decided, its one terminal write is the one they decided, and
\* it has recorded a failure only if it had caught an error before.
C14_CleanupFailureIgnored ==
    \A i \in Invocations :
       Done(i) /\ CleanupFailed(i) =>
          /\ result[i] = <<OutcomeBeforeCleanup(i).settled>>
          /\ TerminalWrites(i) = <<OutcomeBeforeCleanup(i).terminal>>
          /\ written[i][Len(written[i])] = OutcomeBeforeCleanup(i).terminal
          /\ ~Caught(i) => Occurrences(written[i], "markFailed") = 0

\* the removal threw in an invocation that returned and in one that failed
C14_Witness ==
    /\ Returned(1) /\ CleanupFailed(1)
    /\ Threw(2) /\ CleanupFailed(2)

\* ---------------------------------------------------------------- C15
\* the request carried the key
Authenticated(request) == request.authorization = "Bearer API_KEY"

\* the body has a session, a title and a purchase
HasRequired(body) ==
    /\ body.sessionId \notin {Undefined, ""}
    /\ body.storyTitle \notin {Undefined, ""}
    /\ body.purchaseId \notin {Undefined, ""}

Acknowledgement == [status |-> 200, success |-> TRUE]

\* C15 (under HttpSpec): a request gets exactly one response, which never
\* changes.  An authenticated request without one of the required fields
\* gets a 4xx response and processRecording is not called for it; any other
\* authenticated request has its acknowledgement as soon as processRecording
\* is called with its fields; when processRecording has settled, in either
\* way, the handler has returned and has not rejected.
C15_TriggerBoundary ==
    \A i \in Invocations :
       /\ handler[i] = "idle" => pc[i] = "idle" /\ res[i] = <<>>
       /\ pc[i] # "idle" => res[i] = <<Acknowledgement>>
       /\ handler[i] # "idle" =>
             LET request == req[i][1] IN
             /\ Len(res[i]) = 1
             /\ handler[i] \in {"awaiting", "returned"}
             /\ Authenticated(request) /\ ~HasRequired(request.body) =>
                   /\ res[i][1].status \in 400..499
                   /\ ~res[i][1].success
                   /\ pc[i] = "idle" /\ trace[i] = <<>> /\ written[i] = <<>>
             /\ Authenticated(request) /\ HasRequired(request.body) =>
                   /\ res[i] = <<Acknowledgement>>
                   /\ pc[i] # "idle"
                   /\ opts[i].sessionId = request.body.sessionId
                   /\ opts[i].purchaseId = request.body.purchaseId
                   /\ handler[i] = "returned" <=> Done(i)
             /\ ~Authenticated(request) =>
                   /\ res[i][1].status \in 400..499
                   /\ pc[i] = "idle"

\* the first request was acknowledged, its processRecording failed and the
\* handler returned; the second request had no storyTitle and was refused
C15_Witness ==
    /\ handler[1] = "returned" /\ Threw(1) /\ res[1] = <<Acknowledgement>>
    /\ handler[2] = "returned" /\ Authenticated(req[2][1])
    /\ req[2][1].body.storyTitle = Undefined
    /\ req[2][1].body.sessionId # Undefined /\ req[2][1].body.purchaseId # Undefined
    /\ res[2] = <<[status |-> 400, success |-> FALSE]>>

\* ---------------------------------------------------------------- C16
\* the upload of invocation i succeeds in this step
UploadSucceeds(i) == pc[i] = "upload" /\ pc'[i] = "markCompleted"

\* the objects in the bucket
Objects == {k \in StorageKeys : bucket[k] # Null}

\* C16: two invocations for the same session and purchase that both
\* returned have returned the same key, processed/{session}.mp3, and that
\* key is the one object in the bucket; and every successful upload puts the
\* invocation's encoded track under that key, whatever was there, and
\* touches no other key.
C16_SameKeyAndReplace ==
    /\ [](\A i, j \in Invocations :
             /\ i # j /\ Returned(i) /\ Returned(j)
             /\ opts[i].sessionId = opts[j].sessionId
             /\ opts[i].purchaseId = opts[j].purchaseId
             => /\ result[i][1].value = "processed/" \o opts[i].sessionId \o ".mp3"
                /\ result[j][1].value = result[i][1].value
                /\ Objects = {result[i][1].value})
    /\ [][\A i \in Invocations :
             UploadSucceeds(i) =>
                LET key == "processed/" \o opts[i].sessionId \o ".mp3" IN
                /\ bucket'[key] = inputForEncode[i]
                /\ \A k \in StorageKeys \ {key} : bucket'[k] = bucket[k]
                /\ Cardinality({k \in StorageKeys : bucket'[k] # Null})
                      = Cardinality(Objects \cup {key})]_vars

\* both invocations were for the same session and returned, one with the
\* mixed and one with the polished track; the object is one of the two
C16_Witness ==
    /\ Returned(1) /\ Returned(2)
    /\ opts[1].sessionId = opts[2].sessionId
    /\ inputForEncode[1] # inputForEncode[2]
    /\ bucket[outputStoragePath(opts[1].sessionId)]
          \in {inputForEncode[1], inputForEncode[2]}

\* ---------------------------------------------------------------- C17
\* the mix of the invocation is running with its filter graph
Mixing(i) == pc[i] = "mix"

\* C17: while the mix runs, the fade-out of its filter graph starts at
\* d - 5 if the voice duration d is at least 5 and at 0 if it is shorter;
\* it is never negative.
C17_FadeOutClamped ==
    \A i \in Invocations :
       Mixing(i) =>
          /\ Len(complexFilter[i]) = 1
          /\ LET d == complexFilter[i][1].atrim
                 st == complexFilter[i][1].fadeOutStart
             IN /\ d >= 0
                /\ st >= 0
                /\ d >= 5 => st = d - 5
                /\ d < 5 => st = 0

\* one mix runs on a voice of 3 seconds and fades out from 0, another on a
\* voice of 7 seconds and fades out from 2
C17_Witness ==
    /\ Mixing(1) /\ complexFilter[1] = <<[atrim |-> 3, fadeOutStart |-> 0]>>
    /\ Mixing(2) /\ complexFilter[2] = <<[atrim |-> 7, fadeOutStart |-> 2]>>

\* ---------------------------------------------------------------- C18
\* the operations on external collaborators
IsExternalOp(e) ==
    e.op \in {"selectPages", "createSignedUrl", "fetch", "ffmpeg", "ffprobe",
              "upload"}

\* the operations the invocation begins in this step
Begun(i) == SubSeq(trace'[i], Len(trace[i]) + 1, Len(trace'[i]))

\* the invocation begins x in this step and has begun it before, or begins
\* it twice
BeginsAgain(i, x) ==
    \/ \E n \in 1..Len(trace[i]) : trace[i][n] = x
    \/ Cardinality({n \in 1..Len(Begun(i)) : Begun(i)[n] = x}) > 1

\* C18: an invocation begins every external operation at most once; it
\* writes a step only when no operation is in flight and nothing has failed;
\* once it has caught an error it only records the failure and cleans up: it
\* begins no further operation, collects no further page and writes no
\* further step.
C18_NoRetryStrictSequence ==
    /\ [](\A i \in Invocations :
             Caught(i) => pc[i] \in {"markFailed", "done"})
    /\ [][\A i \in Invocations :
             /\ trace'[i] # trace[i] =>
                   /\ SubSeq(trace'[i], 1, Len(trace[i])) = trace[i]
                   /\ \A n \in 1..Len(Begun(i)) :
                         /\ IsExternalOp(Begun(i)[n]) => ~BeginsAgain(i, Begun(i)[n])
                         /\ Caught(i) => ~IsStageOp(Begun(i)[n])
             /\ written'[i] # written[i] =>
                   /\ written'[i] = Append(written[i], written'[i][Len(written'[i])])
                   /\ StepWrite(i) =>
                         /\ ~Caught(i)
                         /\ pc[i] = "updateStep_" \o written'[i][Len(written'[i])].arg
             /\ Caught(i) => wavFiles'[i] = wavFiles[i]]_vars

\* an invocation failed on the download of its second page: it has one clip,
\* wrote no step after downloading and began no upload
C18_Witness ==
    \E i \in Invocations :
       /\ Threw(i)
       /\ thrown[i] = <<DownloadError(1)>>
       /\ Len(wavFiles[i]) = 1
       /\ Steps(i) = <<"downloading">>
       /\ Occurrences(trace[i], "upload") = 0

\* ---------------------------------------------------------------- C19
\* the invocation has ended: its promise has settled, its job has a terminal
\* status and the removal of its workspace has been attempted
Terminated(i) ==
    /\ Done(i)
    /\ Job(i).processing_status \in {"completed", "failed"}
    /\ Len(TerminalWrites(i)) = 1
    /\ Occurrences(trace[i], "rmSync") = 1

\* C19 (under LiveSpec): from some moment on, every invocation that has
\* been called has ended; none stays in an intermediate step.
C19_Terminates ==
    <>[](\A i \in Invocations : pc[i] = "idle" \/ Terminated(i))

\* both invocations have ended, one completed and one failed
C19_Witness ==
    /\ Terminated(1) /\ Returned(1)
    /\ Terminated(2) /\ Threw(2)

\* ---------------------------------------------------------------- C20
\* C20: an invocation has at most one terminal write, and exactly one when
\* it has ended; markCompleted is awaited or written only by an invocation
\* that has caught no error and whose upload has put its object in the
\* bucket; an invocation that caught an error never has a markCompleted.
C20_OneTerminalWrite ==
    \A i \in Invocations :
       LET completed == Occurrences(written[i], "markCompleted")
           failed == Occurrences(written[i], "markFailed")
       IN /\ completed + failed <= 1
          /\ Done(i) => completed + failed = 1
          /\ pc[i] = "markCompleted" \/ completed > 0 =>
                /\ ~Caught(i)
                /\ Occurrences(trace[i], "upload") = 1
                /\ bucket[outputStoragePath(opts[i].sessionId)] # Null
          /\ Caught(i) => completed = 0
          /\ failed > 0 => Caught(i)

\* one invocation wrote completed only, the other failed on its upload and
\* wrote failed only
C20_Witness ==
    /\ Returned(1) /\ TerminalWrites(1) =
          <<Ev("markCompleted", outputStoragePath(opts[1].sessionId))>>
    /\ Threw(2) /\ thrown[2] = <<UploadError("storage unavailable")>>
    /\ TerminalWrites(2) =
          <<Ev("markFailed", MessageOf(UploadError("storage unavailable")))>>

====
